---- MODULE Spec2Model ----
(***************************************************************************)
(* A model of src/algo.py: the recommender classes Algo, AlgoRandom,       *)
(* AlgoUsingCosineSim, AlgoBasicCollaborative, AlgoUsingAnalogy,           *)
(* AlgoAnalogy, AlgoWithBaseline, AlgoBaselineOnly,                        *)
(* AlgoNeighborhoodWithBaseline and AlgoKNNBelkor.                         *)
(*                                                                         *)
(* Floats are fixed-point integers in units of 1/Scale of a rating, with   *)
(* NaN a value of its own; similarities are in units of 1/SimScale; truth  *)
(* values are in quarters (the code maps ratings to (r-1)/4).              *)
(***************************************************************************)
EXTENDS Integers, Sequences, FiniteSets, TLC

\* ------------------------------------------------------------------ bounds
\* cmn.lastUi, cmn.lastMi: the last user id and the last movie id.
lastUi == 3
lastMi == 2
\* At most this many cells of the training matrix hold a rating.
MaxRated == 3
\* The rating values that occur in the training matrices.
TrainRatings == {1, 5}
\* Resolution of the fixed-point floats, and of the similarities.
Scale == 1000
SimScale == 100

VARIABLES
  ratings,      \* the rm argument of the constructors: ratings[m][u], 0 = unrated
  simFiles,     \* the files simCosUsers and simCosMovies
  cls,          \* the class of the instance, "none" before construction
  pc,           \* "new", "ready", "failed" (the constructor raised)
  argMB,        \* the movieBased argument the constructor was called with
  argMethod,    \* the method argument the constructor was called with
  self,         \* the fields of the instance
  xy,           \* the last call of getx0y0: <<u0, m0, x0, y0>>
  nUpd, nUpdImp,\* updatePreds calls, and those made while est was 0
  nInit,        \* calls of Algo.__init__ on the instance
  query,        \* the arguments <<u0, m0>> of the last estimate
  trial, sols,  \* the last AlgoAnalogy.estimate: its passes and its sols
  anyUsable,    \* some pass drew a usable triple of nonzero weight
  tvArgs, tvOut \* arguments and result of the last truth value computed

vars == <<ratings, simFiles, cls, pc, argMB, argMethod, self, xy, nUpd,
          nUpdImp, nInit, query, trial, sols, anyUsable, tvArgs, tvOut>>

envVars == <<ratings, simFiles>>
instVars == <<cls, pc, argMB, argMethod>>
ghostVars == <<xy, nUpd, nUpdImp, nInit>>
analogyVars == <<query, trial, sols, anyUsable>>
tvVars == <<tvArgs, tvOut>>

\* ------------------------------------------------------------- arithmetic
Abs(a) == IF a < 0 THEN -a ELSE a
Max(a, b) == IF a >= b THEN a ELSE b
Min(a, b) == IF a <= b THEN a ELSE b

\* ------------------------------------------------------- AlgoUsingAnalogy
isSolvable(ra, rb, rc) == (ra = rb) \/ (ra = rc)

solve(ra, rb, rc) == rc - ra + rb

\* Truth values in quarters: a rating r is mapped to (r-1)/4.
tvAStar(ra, rb, rc, rd) ==
  LET a == ra - 1  b == rb - 1  c == rc - 1  d == rd - 1
  IN Min(4 - Abs(Max(a, d) - Max(b, c)), 4 - Abs(Min(a, d) - Min(b, c)))

tvA_nosign(ra, rb, rc, rd) ==
  LET a == ra - 1  b == rb - 1  c == rc - 1  d == rd - 1
  IN 4 - Abs((a - b) - (c - d))

tvA(ra, rb, rc, rd) ==
  LET a == ra - 1  b == rb - 1  c == rc - 1  d == rd - 1
  IN IF (a >= b /\ c >= d) \/ (a <= b /\ c <= d)
       THEN 4 - Abs((a - b) - (c - d))
       ELSE 4 - Max(Abs(a - b), Abs(c - d))

\* NaN: the float that is no number, outside the numeric range of the model.
NaN == -(Scale * Scale * Scale)
IsNaN(a) == a = NaN
FAdd(a, b) == IF IsNaN(a) \/ IsNaN(b) THEN NaN ELSE a + b
FSub(a, b) == IF IsNaN(a) \/ IsNaN(b) THEN NaN ELSE a - b
\* Python's a < b on floats: False when either side is NaN.
FLt(a, b) == ~IsNaN(a) /\ ~IsNaN(b) /\ a < b

\* round() of the rational n/d, d > 0: half to even.
RoundHalfEven(n, d) ==
  LET q == n \div d
      r == n % d
  IN IF 2 * r < d THEN q
     ELSE IF 2 * r > d THEN q + 1
     ELSE IF q % 2 = 0 THEN q ELSE q + 1

\* The integer square root of n, by bisection between lo and hi.
RECURSIVE ISqrtIn(_, _, _)
ISqrtIn(n, lo, hi) ==
  IF lo >= hi THEN lo
  ELSE LET mid == (lo + hi + 1) \div 2
       IN IF mid * mid <= n THEN ISqrtIn(n, mid, hi)
                            ELSE ISqrtIn(n, lo, mid - 1)
ISqrt(n) == ISqrtIn(n, 0, Min(n, 46340))

RECURSIVE SumSeq(_)
SumSeq(s) == IF s = <<>> THEN 0 ELSE Head(s) + SumSeq(Tail(s))

\* [f(e) for e in s]
MapSeq(f(_), s) == [i \in 1..Len(s) |-> f(s[i])]

\* ------------------------------------------------------------ the inputs
Users == 1..lastUi
Movies == 1..lastMi

RatedCells(m) == {c \in Movies \X Users : m[c[1]][c[2]] > 0}

\* The training matrices: rm[m][u] in {0} \cup TrainRatings, sparse.
MatricesUpTo(n) ==
  {m \in [Movies -> [Users -> {0} \cup TrainRatings]] :
     Cardinality(RatedCells(m)) <= n}
Matrices == MatricesUpTo(MaxRated)

\* The adjacency lists the loader builds beside the matrix:
\* ur[u] = [(m, r)] and mr[m] = [(u, r)], by ascending id.
urOf(m) ==
  [u \in Users |->
     SelectSeq([i \in Movies |-> <<i, m[i][u]>>], LAMBDA p : p[2] > 0)]
mrOf(m) ==
  [i \in Movies |->
     SelectSeq([u \in Users |-> <<u, m[i][u]>>], LAMBDA p : p[2] > 0)]

\* rm.T
Transpose(m) ==
  [u \in Users |-> [i \in Movies |-> m[i][u]]]

\* --------------------------------------------------------------- Algo
\* An object whose __init__ has not run.
NewObject ==
  [initialized |-> FALSE, ub |-> TRUE, rm |-> <<>>, lastXi |-> 0, lastYi |-> 0,
   xr |-> "None", yr |-> "None", est |-> 0, preds |-> <<>>, nImp |-> 0,
   stats |-> "None", simMat |-> <<>>, k |-> 0, mu |-> 0, xBiases |-> <<>>,
   yBiases |-> <<>>, weights |-> <<>>, distrib |-> "None"]

\* Algo.__init__(self, rm, ur, mr, movieBased)
Algo_init(s, rmArg, urArg, mrArg, movieBased) ==
  IF s.initialized THEN s
  ELSE [s EXCEPT !.initialized = TRUE,
                 !.ub = ~movieBased,
                 !.rm = IF ~movieBased THEN Transpose(rmArg) ELSE rmArg,
                 !.lastXi = IF ~movieBased THEN lastUi ELSE lastMi,
                 !.lastYi = IF ~movieBased THEN lastMi ELSE lastUi,
                 !.xr = IF ~movieBased THEN urArg ELSE mrArg,
                 !.yr = IF ~movieBased THEN mrArg ELSE urArg,
                 !.est = 0, !.preds = <<>>, !.nImp = 0,
                 !.stats = [rmse |-> 0, mae |-> 0, accRate |-> <<0, 1>>, over |-> {}]]

getx0y0(s, u0, m0) == IF s.ub THEN <<u0, m0>> ELSE <<m0, u0>>

\* A rating as a fixed-point float.
R(r) == r * Scale

updatePreds_keeps0(s, r0) ==
  [s EXCEPT !.nImp = IF s.est = 0 THEN s.nImp + 1 ELSE s.nImp,
            !.preds = Append(s.preds, <<s.est, r0>>)]

\* updatePreds(self, r0)
updatePreds(s, r0) ==
  LET e == IF s.est = 0 THEN R(3) ELSE s.est
  IN [s EXCEPT !.nImp = IF s.est = 0 THEN s.nImp + 1 ELSE s.nImp,
               !.est = e,
               !.preds = Append(s.preds, <<e, r0>>)]

\* (r0 - est)**2 and abs(r0 - est), in units of 1/Scale.
SqErr(p) == IF IsNaN(p[1]) THEN NaN
            ELSE ((R(p[2]) - p[1]) * (R(p[2]) - p[1])) \div Scale
AbsErr(p) == IF IsNaN(p[1]) THEN NaN ELSE Abs(R(p[2]) - p[1])

RECURSIVE FSum(_)
FSum(s) == IF s = <<>> THEN 0 ELSE FAdd(Head(s), FSum(Tail(s)))

\* np.sqrt(a / n) of a fixed-point a.
SqrtOfMean(a, n) == IF IsNaN(a) THEN NaN ELSE ISqrt((a \div n) * Scale)

\* makeStats: defined when preds is not empty (nOK + nKO > 0).
makeStats(s) ==
  LET n == Len(s.preds)
      nOK == Cardinality({i \in 1..n : s.preds[i][1] = R(s.preds[i][2])})
  IN [s EXCEPT !.stats =
        [rmse |-> SqrtOfMean(FSum(MapSeq(SqErr, s.preds)), n),
         mae |-> SqrtOfMean(FSum(MapSeq(AbsErr, s.preds)), n),
         accRate |-> <<nOK, n>>,
         over |-> {s.preds[i] : i \in 1..n}]]

\* ---------------------------------------------------------- AlgoRandom
\* fqs before it is normalised: the loops stop before lastXi and lastYi.
CountFqs(s) ==
  [v \in 1..5 |->
     Cardinality({c \in (1..(s.lastXi - 1)) \X (1..(s.lastYi - 1)) :
                    s.rm[c[1]][c[2]] > 0 /\ s.rm[c[1]][c[2]] = v})]

SumFqs(f) == f[1] + f[2] + f[3] + f[4] + f[5]

\* AlgoRandom.__init__(self, rm): [obj, raised]
AlgoRandom_init(s, rmArg) ==
  LET s1 == Algo_init(s, rmArg, "None", "None", FALSE)
      fqs == CountFqs(s1)
  IN IF SumFqs(fqs) = 0
       THEN [obj |-> s1, raised |-> "ZeroDivisionError"]
       ELSE [obj |-> [s1 EXCEPT !.distrib = [v \in 1..5 |-> <<fqs[v], SumFqs(fqs)>>]],
             raised |-> "no"]

\* The values self.distrib.rvs() can return.
AlgoRandom_draws(s) == {v \in 1..5 : s.distrib[v][1] > 0}

\* ------------------------------------------------- AlgoUsingCosineSim
\* simCos(a, b) in units of 1/SimScale: 1 - cosine(aR, bR) is
\* dot(aR, bR) / (|aR| |bR|).
simCos(s, a, b) ==
  LET Yab == {y \in 1..s.lastYi : s.rm[a][y] > 0 /\ s.rm[b][y] > 0}
      ys == [y \in 1..s.lastYi |-> IF y \in Yab THEN 1 ELSE 0]
      dot == SumSeq([y \in 1..s.lastYi |-> ys[y] * s.rm[a][y] * s.rm[b][y]])
      na == SumSeq([y \in 1..s.lastYi |-> ys[y] * s.rm[a][y] * s.rm[a][y]])
      nb == SumSeq([y \in 1..s.lastYi |-> ys[y] * s.rm[b][y] * s.rm[b][y]])
  IN IF Cardinality(Yab) < 2 THEN 0
     ELSE ISqrt((SimScale * SimScale * dot * dot) \div (na * nb))

\* The matrix the except branch of constructSimMat computes.
ComputeSimMat(s) ==
  [xi \in 1..s.lastXi |-> [xj \in 1..s.lastXi |-> simCos(s, xi, xj)]]

SimFileNames == {"simCosUsers", "simCosMovies"}
NoFile == [state |-> "missing", data |-> <<>>]

\* open(name, 'rb') then np.load: the matrix, or the exception raised.
\* A malformed file makes np.load raise what malformedAs names.
LoadSimFile(f, malformedAs) ==
  CASE f.state = "valid" -> [raised |-> "no", data |-> f.data]
    [] f.state = "malformed" -> [raised |-> malformedAs, data |-> <<>>]
    [] OTHER -> [raised |-> "IOError", data |-> <<>>]

\* constructSimMat: [obj, files, raised]
constructSimMat(s, files, malformedAs) ==
  LET name == IF s.ub THEN "simCosUsers" ELSE "simCosMovies"
      got == LoadSimFile(files[name], malformedAs)
      computed == ComputeSimMat(s)
  IN CASE got.raised = "no" ->
            [obj |-> [s EXCEPT !.simMat = got.data], files |-> files,
             raised |-> "no"]
       [] got.raised = "IOError" ->
            [obj |-> [s EXCEPT !.simMat = computed],
             files |-> [files EXCEPT ![name] =
                          [state |-> "valid", data |-> computed]],
             raised |-> "no"]
       [] OTHER -> [obj |-> s, files |-> files, raised |-> got.raised]

\* AlgoUsingCosineSim.__init__(self, rm, movieBased): movieBased is handed
\* to Algo.__init__ as its second positional argument, ur.
AlgoUsingCosineSim_init(s, files, rmArg, movieBased, malformedAs) ==
  constructSimMat(Algo_init(s, rmArg, movieBased, "None", FALSE),
                  files, malformedAs)

\* ---------------------------------------------- AlgoBasicCollaborative
kNN == 40

AlgoBasicCollaborative_init(s, files, rmArg, movieBased, malformedAs) ==
  LET r == AlgoUsingCosineSim_init(s, files, rmArg, movieBased, malformedAs)
  IN IF r.raised = "no" THEN [r EXCEPT !.obj.k = kNN] ELSE r

\* sorted(l, key=lambda x: x[1], reverse=True), on the second component: stable.
RECURSIVE InsertDesc(_, _)
InsertDesc(e, l) ==
  IF l = <<>> THEN <<e>>
  ELSE IF Head(l)[2] >= e[2] THEN <<Head(l)>> \o InsertDesc(e, Tail(l))
  ELSE <<e>> \o l
RECURSIVE SortedDesc(_)
SortedDesc(l) ==
  IF l = <<>> THEN <<>>
  ELSE InsertDesc(l[Len(l)], SortedDesc(SubSeq(l, 1, Len(l) - 1)))

\* l[:k]
Take(l, k) == SubSeq(l, 1, Min(k, Len(l)))

\* The (x, sim(x0, x)) of the x that rated y0, by ascending x.
Candidates(s, x0, y0) ==
  SelectSeq([x \in 1..s.lastXi |-> <<x, s.simMat[x0][x]>>],
            LAMBDA p : s.rm[p[1]][y0] > 0)

\* np.average(values, weights=w) raises ZeroDivisionError when sum(w) = 0.
WeightSum(nb) == SumSeq(MapSeq(LAMBDA p : p[2], nb))

AlgoBasicCollaborative_estimate_noguard(s, u0, m0) ==
  LET x0 == getx0y0(s, u0, m0)[1]
      y0 == getx0y0(s, u0, m0)[2]
      nb == Take(SortedDesc(Candidates(s, x0, y0)), s.k)
      num == SumSeq(MapSeq(LAMBDA p : s.rm[p[1]][y0] * p[2], nb))
  IN IF WeightSum(nb) = 0
       THEN [s EXCEPT !.est = R(RoundHalfEven(SumSeq(MapSeq(LAMBDA p : s.rm[p[1]][y0], nb)), Max(1, Len(nb))))]
       ELSE [s EXCEPT !.est = R(RoundHalfEven(num, WeightSum(nb)))]

AlgoBasicCollaborative_estimate(s, u0, m0) ==
  LET x0 == getx0y0(s, u0, m0)[1]
      y0 == getx0y0(s, u0, m0)[2]
      simX0 == Candidates(s, x0, y0)
      nb == Take(SortedDesc(simX0), s.k)
      num == SumSeq(MapSeq(LAMBDA p : s.rm[p[1]][y0] * p[2], nb))
  IN IF simX0 = <<>> THEN [s EXCEPT !.est = 0]
     ELSE IF WeightSum(nb) = 0 THEN [s EXCEPT !.est = 0]
     ELSE [s EXCEPT !.est = R(RoundHalfEven(num, WeightSum(nb)))]

\* ---------------------------------------------------- AlgoWithBaseline
\* gamma, lambda4 per mille; nIter; lambda2 and lambda3 of the basic method.
gamma == 5
lambda4 == 20
nIter == 20
lambdaUser == 10
lambdaMovie == 25

PerMille(a, p) == (a * p) \div 1000

\* [r for l in self.rm for r in l if r > 0]
AllRatings(s) ==
  {c \in (1..s.lastXi) \X (1..s.lastYi) : s.rm[c[1]][c[2]] > 0}

RECURSIVE SumOver(_, _)
SumOver(f(_), S) ==
  IF S = {} THEN 0
  ELSE LET e == CHOOSE e \in S : TRUE IN f(e) + SumOver(f, S \ {e})

\* np.mean of the ratings: nan when there is none.
MeanRating(s) ==
  IF AllRatings(s) = {} THEN NaN
  ELSE (Scale * SumOver(LAMBDA c : s.rm[c[1]][c[2]], AllRatings(s)))
         \div Cardinality(AllRatings(s))

\* The (x, y, r) in the order of the loops over self.xr.items().
RECURSIVE Observations(_, _)
Observations(xr, x) ==
  IF x > Len(xr) THEN <<>>
  ELSE MapSeq(LAMBDA p : <<x, p[1], p[2]>>, xr[x]) \o Observations(xr, x + 1)

\* One update of the gradient descent, on b = [x |-> xBiases, y |-> yBiases].
SgdStep(m, b, o) ==
  LET err == R(o[3]) - (m + b.x[o[1]] + b.y[o[2]])
  IN [x |-> [b.x EXCEPT ![o[1]] = @ + PerMille(err - PerMille(@, lambda4), gamma)],
      y |-> [b.y EXCEPT ![o[2]] = @ + PerMille(err - PerMille(@, lambda4), gamma)]]

\* The updates lo..hi-1 of the nIter passes over the observations, in order:
\* update i is made with observation i mod len(obs).  The range is halved
\* and the biases after the first half are bound, as a value, through a
\* singleton set before the second half starts.
RECURSIVE SgdIter(_, _, _, _, _)
SgdIter(m, b, obs, lo, hi) ==
  IF lo >= hi THEN b
  ELSE IF hi = lo + 1 THEN SgdStep(m, b, obs[(lo % Len(obs)) + 1])
  ELSE LET mid == (lo + hi) \div 2
       IN CHOOSE r \in {SgdIter(m, b1, obs, mid, hi) :
                          b1 \in {SgdIter(m, b, obs, lo, mid)}} : TRUE

\* sum(dev) / (lambda + len(dev)) for dev = [r - mu for (_, r) in l]
Shrunk(m, l, lambda) ==
  IF l = <<>> THEN 0
  ELSE SumSeq(MapSeq(LAMBDA p : R(p[2]) - m, l)) \div (lambda + Len(l))

lambda2_swapped(s) == IF s.ub THEN lambdaMovie ELSE lambdaUser
lambda2(s) == IF s.ub THEN lambdaUser ELSE lambdaMovie
lambda3(s) == IF s.ub THEN lambdaMovie ELSE lambdaUser

\* AlgoWithBaseline.__init__(self, rm, ur, mr, movieBased, method)
AlgoWithBaseline_init(s, rmArg, urArg, mrArg, movieBased, method) ==
  LET s1 == Algo_init(s, rmArg, urArg, mrArg, movieBased)
      m == MeanRating(s1)
      zero == [x |-> [x \in 1..s1.lastXi |-> 0], y |-> [y \in 1..s1.lastYi |-> 0]]
      b == IF method = "opt"
             THEN SgdIter(m, zero, Observations(s1.xr, 1), 0,
                          nIter * Len(Observations(s1.xr, 1)))
             ELSE [x |-> [x \in 1..s1.lastXi |-> Shrunk(m, s1.xr[x], lambda2(s1))],
                   y |-> [y \in 1..s1.lastYi |-> Shrunk(m, s1.yr[y], lambda3(s1))]]
  IN [s1 EXCEPT !.mu = m, !.xBiases = b.x, !.yBiases = b.y]

getBaseline(s, x, y) == FAdd(FAdd(s.mu, s.xBiases[x]), s.yBiases[y])

\* ---------------------------------------------------- AlgoBaselineOnly
AlgoBaselineOnly_estimate(s, u0, m0) ==
  [s EXCEPT !.est = getBaseline(s, getx0y0(s, u0, m0)[1], getx0y0(s, u0, m0)[2])]

\* ---------------------------------------- AlgoNeighborhoodWithBaseline
\* AlgoWithBaseline.__init__ then AlgoUsingCosineSim.__init__, whose call of
\* Algo.__init__ returns at once: [obj, files, raised]
AlgoNeighborhoodWithBaseline_init(s, files, rmArg, urArg, mrArg, mb, method, malformedAs) ==
  AlgoUsingCosineSim_init(
    AlgoWithBaseline_init(s, rmArg, urArg, mrArg, mb, method),
    files, rmArg, mb, malformedAs)

AlgoNeighborhoodWithBaseline_estimate(s, u0, m0) ==
  LET x0 == getx0y0(s, u0, m0)[1]
      y0 == getx0y0(s, u0, m0)[2]
      base == getBaseline(s, x0, y0)
      simX0 == MapSeq(LAMBDA p : <<p[1], s.simMat[x0][p[1]], p[2]>>, s.yr[y0])
      nb == Take(SortedDesc(simX0), kNN)
      num == SumSeq(MapSeq(LAMBDA p : (R(p[3]) - getBaseline(s, p[1], y0)) * p[2], nb))
  IN IF simX0 = <<>> \/ WeightSum(nb) = 0 THEN [s EXCEPT !.est = base]
     ELSE [s EXCEPT !.est = FAdd(base, num \div WeightSum(nb))]

\* --------------------------------------------------------- AlgoKNNBelkor
\* The values the training loop of AlgoKNNBelkor.__init__ may leave in every
\* bias and every weight: any of these.
LearnedBiases == {-4 * Scale, 0, 4 * Scale}
LearnedWeights == {-3 * Scale, 0, 3 * Scale}

\* AlgoKNNBelkor.__init__: the baseline, then the 20 passes that learn
\* xBiases, yBiases and weights, here any learned.bx, learned.by, learned.w.
AlgoKNNBelkor_init(s, rmArg, urArg, mrArg, movieBased, method, learned) ==
  LET s1 == AlgoWithBaseline_init(s, rmArg, urArg, mrArg, movieBased, method)
  IN [s1 EXCEPT
        !.xBiases = [x \in 1..s1.lastXi |-> learned.bx],
        !.yBiases = [y \in 1..s1.lastYi |-> learned.by],
        !.weights = [x \in 1..s1.lastXi |-> [x2 \in 1..s1.lastXi |-> learned.w]]]

\* Python's min(a, b) and max(a, b): b only when b < a, or a < b.
PyMin(a, b) == IF FLt(b, a) THEN b ELSE a
PyMax(a, b) == IF FLt(a, b) THEN b ELSE a

\* a / np.sqrt(n): 0 / 0.0 is nan.
DivSqrt(a, n) ==
  IF n = 0 THEN NaN
  ELSE (a * SimScale) \div ISqrt(n * SimScale * SimScale)

\* The estimate before it is clamped.
AlgoKNNBelkor_raw(s, u0, m0) ==
  LET x0 == getx0y0(s, u0, m0)[1]
      y0 == getx0y0(s, u0, m0)[2]
      sum == SumSeq(MapSeq(
               LAMBDA p : ((R(p[2]) - getBaseline(s, p[1], y0)) * s.weights[x0][p[1]])
                            \div Scale,
               s.yr[y0]))
  IN FAdd(DivSqrt(sum, Len(s.yr[y0])), getBaseline(s, x0, y0))

Clamp_swapped(e) == PyMax(PyMin(e, R(5)), R(1))
Clamp(e) == PyMax(R(1), PyMin(R(5), e))

AlgoKNNBelkor_estimate(s, u0, m0) ==
  [s EXCEPT !.est = Clamp(AlgoKNNBelkor_raw(s, u0, m0))]

\* ----------------------------------------------------------- AlgoAnalogy
\* range(1000), bounded.
NTrials == 2

\* The truth values over the ys that xa, xb, xc and x0 all rated.
getTvVector(s, xa, xb, xc, x0) ==
  MapSeq(LAMBDA p : tvA(s.rm[xa][p[1]], s.rm[xb][p[1]], s.rm[xc][p[1]], s.rm[x0][p[1]]),
         SelectSeq(s.xr[xa],
                   LAMBDA p : s.rm[xb][p[1]] # 0 /\ s.rm[xc][p[1]] # 0
                              /\ s.rm[x0][p[1]] # 0))

\* np.mean(tv), of truth values in quarters: in units of 1/(4 Scale).
MeanTv(tv) == (SumSeq(tv) * Scale) \div Len(tv)

\* One pass of the sampling loop: the sols after a, b, c were drawn.
Trial_nodistinct(s, x0, a, b, c, ss) ==
  IF isSolvable(a[2], b[2], c[2])
       /\ getTvVector(s, a[1], b[1], c[1], x0) # <<>>
    THEN Append(ss, <<solve(a[2], b[2], c[2]),
                      MeanTv(getTvVector(s, a[1], b[1], c[1], x0))>>)
    ELSE ss

Trial(s, x0, a, b, c, ss) ==
  IF a[1] # b[1] /\ b[1] # c[1] /\ a[1] # c[1]
       /\ isSolvable(a[2], b[2], c[2])
       /\ getTvVector(s, a[1], b[1], c[1], x0) # <<>>
    THEN Append(ss, <<solve(a[2], b[2], c[2]),
                      MeanTv(getTvVector(s, a[1], b[1], c[1], x0))>>)
    ELSE ss

\* The end of AlgoAnalogy.estimate, from the sols of the loop.
AlgoAnalogy_vote(ss) ==
  IF ss = <<>> \/ {ss[i][2] : i \in 1..Len(ss)} = {0} THEN 0
  ELSE R(RoundHalfEven(SumSeq(MapSeq(LAMBDA p : p[1] * p[2], ss)),
                       SumSeq(MapSeq(LAMBDA p : p[2], ss))))

\* What rd.choice(self.yr[y0]) may return, and the (a, b, c) of one pass.
Choices(s, y0) == {s.yr[y0][i] : i \in 1..Len(s.yr[y0])}
Triples(s, y0) == Choices(s, y0) \X Choices(s, y0) \X Choices(s, y0)

\* The sols after the passes i..len(ts) of the loop, ts[i] drawn in pass i.
RECURSIVE RunTrials(_, _, _, _, _)
RunTrials(s, x0, ts, i, ss) ==
  IF i > Len(ts) THEN ss
  ELSE RunTrials(s, x0, ts, i + 1, Trial(s, x0, ts[i][1], ts[i][2], ts[i][3], ss))

\* AlgoAnalogy.estimate(u0, m0) when the passes of the loop draw ts.
AlgoAnalogy_estimate(s, u0, m0, ts) ==
  LET x0 == getx0y0(s, u0, m0)[1]
      y0 == getx0y0(s, u0, m0)[2]
  IN IF s.yr[y0] = <<>> THEN [s EXCEPT !.est = 0]
     ELSE [s EXCEPT !.est = AlgoAnalogy_vote(RunTrials(s, x0, ts, 1, <<>>))]

\* ------------------------------------------------------- the constructors
\* AlgoUsingAnalogy.__init__, AlgoAnalogy.__init__, AlgoGilles.__init__
AlgoUsingAnalogy_init(s, rmArg, urArg, mrArg, movieBased) ==
  Algo_init(s, rmArg, urArg, mrArg, movieBased)

Classes ==
  {"AlgoRandom", "AlgoBasicCollaborative", "AlgoAnalogy", "AlgoGilles",
   "AlgoBaselineOnly", "AlgoNeighborhoodWithBaseline", "AlgoKNNBelkor"}
WithBaseline == {"AlgoBaselineOnly", "AlgoNeighborhoodWithBaseline", "AlgoKNNBelkor"}
WithSimFile == {"AlgoBasicCollaborative", "AlgoNeighborhoodWithBaseline"}

\* The arguments a constructor of class c takes, beside the ratings.
MovieBasedArgs(c) == IF c = "AlgoRandom" THEN {FALSE} ELSE BOOLEAN
MethodArgs(c) == IF c \in WithBaseline THEN {"opt", "basic"} ELSE {"opt"}
CacheStates == {"missing", "unreadable", "malformed", "valid"}
\* What np.load raises on a malformed file: IOError, or another exception.
LoadFailures == {"IOError", "ValueError"}
LoadFailuresOf(c) == IF c \in WithSimFile THEN LoadFailures ELSE {"IOError"}
Learned ==
  [bx : LearnedBiases, by : LearnedBiases, w : LearnedWeights]
LearnedOf(c) ==
  IF c = "AlgoKNNBelkor" THEN Learned ELSE {[bx |-> 0, by |-> 0, w |-> 0]}

\* c(rm, ur, mr, movieBased, method): [obj, files, raised]
New(c, files, m, mb, method, malformedAs, learned) ==
  CASE c = "AlgoRandom" ->
         [obj |-> AlgoRandom_init(NewObject, m).obj, files |-> files,
          raised |-> AlgoRandom_init(NewObject, m).raised]
    [] c = "AlgoBasicCollaborative" ->
         AlgoBasicCollaborative_init(NewObject, files, m, mb, malformedAs)
    [] c \in {"AlgoAnalogy", "AlgoGilles"} ->
         [obj |-> AlgoUsingAnalogy_init(NewObject, m, urOf(m), mrOf(m), mb),
          files |-> files, raised |-> "no"]
    [] c = "AlgoBaselineOnly" ->
         [obj |-> AlgoWithBaseline_init(NewObject, m, urOf(m), mrOf(m), mb, method),
          files |-> files, raised |-> "no"]
    [] c = "AlgoNeighborhoodWithBaseline" ->
         AlgoNeighborhoodWithBaseline_init(NewObject, files, m, urOf(m), mrOf(m),
                                           mb, method, malformedAs)
    [] c = "AlgoKNNBelkor" ->
         [obj |-> AlgoKNNBelkor_init(NewObject, m, urOf(m), mrOf(m), mb, method,
                                     learned),
          files |-> files, raised |-> "no"]

\* The values estimate(u0, m0) may leave in self.est.
Estimates(s, c, u0, m0) ==
  CASE c = "AlgoRandom" -> {R(v) : v \in AlgoRandom_draws(s)}
    [] c = "AlgoBasicCollaborative" -> {AlgoBasicCollaborative_estimate(s, u0, m0).est}
    [] c = "AlgoBaselineOnly" -> {AlgoBaselineOnly_estimate(s, u0, m0).est}
    [] c = "AlgoNeighborhoodWithBaseline" ->
         {AlgoNeighborhoodWithBaseline_estimate(s, u0, m0).est}
    [] c = "AlgoKNNBelkor" -> {AlgoKNNBelkor_estimate(s, u0, m0).est}

\* ================================================================ states
NoRatings == [m \in Movies |-> [u \in Users |-> 0]]
NoFiles == [n \in SimFileNames |-> NoFile]

\* The file of state st for the orientation movieBased: a valid file holds
\* the matrix an earlier run saved for these ratings.
SimFile(st, m, movieBased) ==
  [state |-> st,
   data |-> IF st = "valid"
              THEN ComputeSimMat(Algo_init(NewObject, m, "None", "None", movieBased))
              ELSE <<>>]
SimFilesIn(su, sm, m) ==
  [n \in SimFileNames |->
     IF n = "simCosUsers" THEN SimFile(su, m, FALSE) ELSE SimFile(sm, m, TRUE)]

NoInstance ==
  cls = "none" /\ pc = "new" /\ argMB = FALSE /\ argMethod = "opt" /\ self = NewObject
NoGhost == xy = <<0, 0, 0, 0>> /\ nUpd = 0 /\ nUpdImp = 0 /\ nInit = 0
NoSampling == query = <<0, 0>> /\ trial = 0 /\ sols = <<>> /\ anyUsable = FALSE
NoTv == tvArgs = <<1, 1, 1, 1>> /\ tvOut = -1

\* --------------------------------------------------------------- actions
\* The construction of an instance of a class of cs.
Construct(cs) ==
  /\ pc = "new"
  /\ \E c \in cs :
       \E mb \in MovieBasedArgs(c), method \in MethodArgs(c),
          malformedAs \in LoadFailuresOf(c), learned \in LearnedOf(c) :
         LET r == New(c, simFiles, ratings, mb, method, malformedAs, learned)
         IN /\ self' = r.obj
            /\ simFiles' = r.files
            /\ pc' = IF r.raised = "no" THEN "ready" ELSE "failed"
            /\ cls' = c /\ argMB' = mb /\ argMethod' = method
  /\ nInit' = nInit + 1
  /\ UNCHANGED <<ratings, xy, nUpd, nUpdImp, analogyVars, tvVars>>

\* estimate(u0, m0), of the classes whose estimate draws no sample sequence.
Estimate ==
  /\ pc = "ready"
  /\ \E u0 \in Users, m0 \in Movies :
       /\ \E e \in Estimates(self, cls, u0, m0) : self' = [self EXCEPT !.est = e]
       /\ query' = <<u0, m0>>
  /\ UNCHANGED <<envVars, instVars, ghostVars, trial, sols, anyUsable, tvVars>>

\* ------------------------------------------------- truth values (tvA)
InitTv ==
  /\ ratings = NoRatings /\ simFiles = NoFiles
  /\ NoInstance /\ NoGhost /\ NoSampling
  /\ tvArgs \in (1..5) \X (1..5) \X (1..5) \X (1..5)
  /\ tvOut = -1

CallTvA ==
  /\ tvOut = -1
  /\ tvOut' = tvA(tvArgs[1], tvArgs[2], tvArgs[3], tvArgs[4])
  /\ UNCHANGED <<envVars, instVars, self, ghostVars, analogyVars, tvArgs>>

NextTv == CallTvA

SpecTv == InitTv /\ [][NextTv]_vars

\* C9: for all ra, rb, rc, rd in 1..5 the truth value tvA(ra, rb, rc, rd), in
\* quarters, lies in 0..4, that is in [0, 1].
C9_TvAInUnitInterval == tvOut # -1 => tvOut \in 0..4

\* The differences have opposite signs and the truth value is 0.
C9_Witness == tvOut = 0 /\ tvArgs = <<5, 1, 1, 5>>

\* ------------------------------------------- updatePreds and makeStats
MaxPreds == 3
\* What the estimate methods of the child classes leave in self.est: the
\* sentinel, ratings, a baseline between two ratings, nan.
EstValues == {0, R(1), R(5), 3 * Scale + Scale \div 2, NaN}
ActualRatings == {1, 3}

InitPreds ==
  /\ ratings = NoRatings /\ simFiles = NoFiles
  /\ cls = "Algo" /\ pc = "ready"
  /\ argMB \in BOOLEAN /\ argMethod = "opt"
  /\ self = Algo_init(NewObject, ratings, urOf(ratings), mrOf(ratings), argMB)
  /\ xy = <<0, 0, 0, 0>> /\ nUpd = 0 /\ nUpdImp = 0 /\ nInit = 1
  /\ NoSampling /\ NoTv

\* self.est is set by the estimate method of the child classes.
EstimateAny ==
  /\ pc = "ready"
  /\ \E v \in EstValues : self' = [self EXCEPT !.est = v]
  /\ UNCHANGED <<envVars, instVars, ghostVars, analogyVars, tvVars>>

UpdatePreds ==
  /\ pc = "ready"
  /\ Len(self.preds) < MaxPreds
  /\ \E r0 \in ActualRatings : self' = updatePreds(self, r0)
  /\ nUpd' = nUpd + 1
  /\ nUpdImp' = IF self.est = 0 THEN nUpdImp + 1 ELSE nUpdImp
  /\ UNCHANGED <<envVars, instVars, xy, nInit, analogyVars, tvVars>>

\* With no prediction yet makeStats raises ZeroDivisionError and sets nothing.
MakeStats ==
  /\ pc = "ready"
  /\ Len(self.preds) > 0
  /\ self' = makeStats(self)
  /\ UNCHANGED <<envVars, instVars, ghostVars, analogyVars, tvVars>>

NextPreds == EstimateAny \/ UpdatePreds \/ MakeStats

SpecPreds == InitPreds /\ [][NextPreds]_vars

\* C8: no record of preds carries the sentinel 0: an impossible estimate is
\* replaced by 3 before it is appended; nImp is the number of updatePreds
\* calls made while est was 0, len(preds) the number of updatePreds calls,
\* nImp <= len(preds); makeStats aggregates only over records whose estimate
\* is not 0.
C8_NoSentinelInPreds ==
  pc = "ready" =>
    /\ \A i \in 1..Len(self.preds) : self.preds[i][1] # 0
    /\ self.nImp = nUpdImp
    /\ Len(self.preds) = nUpd
    /\ self.nImp <= Len(self.preds)
    /\ self.nImp <= Cardinality({i \in 1..Len(self.preds) : self.preds[i][1] = R(3)})
    /\ \A p \in self.stats.over : p[1] # 0

\* Two impossible estimates were recorded and the statistics made.
C8_Witness ==
  /\ self.nImp = 2 /\ Len(self.preds) = 3
  /\ Cardinality(self.stats.over) >= 2

\* ------------------------------------------------------------ AlgoRandom
InitRandom ==
  /\ ratings \in Matrices /\ simFiles = NoFiles
  /\ NoInstance /\ NoGhost /\ NoSampling /\ NoTv

NextRandom == Construct({"AlgoRandom"}) \/ Estimate

SpecRandom == InitRandom /\ [][NextRandom]_vars

\* The number of cells of the training matrix that hold v.
CellsWith(v) == Cardinality({c \in RatedCells(ratings) : ratings[c[1]][c[2]] = v})

\* C5: AlgoRandom fits, for each v in 1..5, the number of entries with rating
\* v over all x in 1..lastXi and y in 1..lastYi divided by the number of
\* nonzero entries; so construction succeeds whenever the matrix holds a
\* rating, and estimate returns only values that occur in the matrix.
C5_RandomFitsWholeMatrix ==
  cls = "AlgoRandom" =>
    /\ RatedCells(ratings) # {} => pc = "ready"
    /\ pc = "ready" =>
         /\ \A v \in 1..5 :
              self.distrib[v] = <<CellsWith(v), Cardinality(RatedCells(ratings))>>
         /\ self.est # 0 => \E v \in 1..5 : self.est = R(v) /\ CellsWith(v) > 0

\* ----------------------------------------------------------- orientation
MaxInit == 3

InitOrient ==
  /\ ratings \in MatricesUpTo(1) /\ simFiles = NoFiles
  /\ NoInstance /\ NoGhost /\ NoSampling /\ NoTv

\* Algo.__init__ called again on the instance, with any movieBased.
InitAgain ==
  /\ pc = "ready" /\ nInit < MaxInit
  /\ \E mb \in BOOLEAN :
       self' = Algo_init(self, ratings, urOf(ratings), mrOf(ratings), mb)
  /\ nInit' = nInit + 1
  /\ UNCHANGED <<envVars, instVars, xy, nUpd, nUpdImp, analogyVars, tvVars>>

Getx0y0 ==
  /\ pc = "ready"
  /\ \E u0 \in Users, m0 \in Movies :
       xy' = <<u0, m0>> \o getx0y0(self, u0, m0)
  /\ UNCHANGED <<envVars, instVars, self, nUpd, nUpdImp, nInit, analogyVars, tvVars>>

NextOrient == Construct(Classes \ {"AlgoRandom"}) \/ InitAgain \/ Getx0y0

SpecOrient == InitOrient /\ [][NextOrient]_vars

\* C2: a predictor constructed with movieBased=True has
\* getx0y0(u0, m0) = (m0, u0), one constructed with movieBased=False has
\* getx0y0(u0, m0) = (u0, m0), also for the classes that reach Algo.__init__
\* through AlgoUsingCosineSim.__init__ and after a second Algo.__init__.
C2_OrientationFollowsArgument ==
  pc = "ready" /\ xy # <<0, 0, 0, 0>> =>
    /\ self.ub = ~argMB
    /\ <<xy[3], xy[4]>> = IF argMB THEN <<xy[2], xy[1]>> ELSE <<xy[1], xy[2]>>

\* ------------------------------------------------------ constructSimMat
InitCache ==
  /\ ratings \in MatricesUpTo(2)
  /\ \E su \in CacheStates, sm \in CacheStates :
       simFiles = SimFilesIn(su, sm, ratings)
  /\ NoInstance /\ NoGhost /\ NoSampling /\ NoTv

NextCache == Construct(WithSimFile)

SpecCache == InitCache /\ [][NextCache]_vars

\* The file constructSimMat opens for the orientation of the instance.
OwnSimFile == IF self.ub THEN "simCosUsers" ELSE "simCosMovies"

\* C3: constructSimMat never fails because of the state of the cache: with
\* the file missing, unreadable or malformed the matrix is recomputed for all
\* pairs in 1..lastXi and overwrites the cache, and construction completes;
\* a valid cache is loaded.
C3_CacheNeverFatal ==
  cls \in WithSimFile =>
    /\ pc = "ready"
    /\ self.simMat = ComputeSimMat(self)
    /\ simFiles[OwnSimFile] = [state |-> "valid", data |-> self.simMat]

\* ------------------------------------------------ AlgoBasicCollaborative
InitBasic ==
  /\ ratings \in Matrices /\ simFiles = NoFiles
  /\ NoInstance /\ NoGhost /\ NoSampling /\ NoTv

NextBasic == Construct({"AlgoBasicCollaborative"}) \/ Estimate

SpecBasic == InitBasic /\ [][NextBasic]_vars

\* The x that rated y0, for the query of the last estimate.
QueryX0 == getx0y0(self, query[1], query[2])[1]
QueryY0 == getx0y0(self, query[1], query[2])[2]
Raters == {x \in 1..self.lastXi : self.rm[x][QueryY0] > 0}

\* C4: AlgoBasicCollaborative.estimate sets the estimate to the sentinel 0
\* whenever no x in 1..lastXi has rating(x, y0) > 0, and whenever the
\* similarities of the top-k candidates sum to zero (all the raters are among
\* the top k = 40 while lastXi <= 40); otherwise it is a rounded average.
C4_BasicImpossibleIsZero ==
  pc = "ready" /\ cls = "AlgoBasicCollaborative" /\ query # <<0, 0>> =>
    /\ Raters = {} => self.est = 0
    /\ (\A x \in Raters : self.simMat[QueryX0][x] = 0) => self.est = 0
    /\ self.est # 0 => \E r \in 1..5 : self.est = R(r)

\* Somebody rated y0, nobody of them is similar to x0, and the estimate is 0.
C4_Witness ==
  /\ pc = "ready" /\ cls = "AlgoBasicCollaborative" /\ query # <<0, 0>>
  /\ Raters # {} /\ self.est = 0 /\ self.lastXi <= kNN

\* ------------------------------ AlgoBaselineOnly, AlgoNeighborhoodWithBaseline
InitNeighborhood ==
  /\ ratings \in MatricesUpTo(MaxRated + 1) /\ simFiles = NoFiles
  /\ NoInstance /\ NoGhost /\ NoSampling /\ NoTv

NextNeighborhood ==
  Construct({"AlgoBaselineOnly", "AlgoNeighborhoodWithBaseline"}) \/ Estimate

SpecNeighborhood == InitNeighborhood /\ [][NextNeighborhood]_vars

\* C1: after estimate(u0, m0) the value left in self.est is the sentinel 0 or
\* a number in [1, 5].
C1_EstimateInRange ==
  pc = "ready" /\ query # <<0, 0>> =>
    \/ self.est = 0
    \/ ~IsNaN(self.est) /\ self.est >= R(1) /\ self.est <= R(5)

\* ------------------------------------------------- the shrinkage strategy
InitBaseline ==
  /\ ratings \in Matrices /\ simFiles = NoFiles
  /\ NoInstance /\ NoGhost /\ NoSampling /\ NoTv

NextBaseline == Construct({"AlgoBaselineOnly"}) \/ Estimate

SpecBaseline == InitBaseline /\ [][NextBaseline]_vars

\* sum(r - mu) / (lambda + count) over the ratings of user u, of movie m, read
\* from the training matrix.
UserRatings(u) == {m \in Movies : ratings[m][u] > 0}
MovieRatings(m) == {u \in Users : ratings[m][u] > 0}
UserShrunk(u, lambda) ==
  IF UserRatings(u) = {} THEN 0
  ELSE SumOver(LAMBDA m : R(ratings[m][u]) - self.mu, UserRatings(u))
         \div (lambda + Cardinality(UserRatings(u)))
MovieShrunk(m, lambda) ==
  IF MovieRatings(m) = {} THEN 0
  ELSE SumOver(LAMBDA u : R(ratings[m][u]) - self.mu, MovieRatings(m))
         \div (lambda + Cardinality(MovieRatings(m)))

Shrinkage == pc = "ready" /\ cls = "AlgoBaselineOnly" /\ argMethod = "basic"

\* C7: in the shrinkage strategy the users are regularized with 10 and the
\* movies with 25 under either orientation: user-based, x is regularized with
\* 10 and y with 25; movie-based, x is regularized with 25 and y with 10.
C7_UsersTenMoviesTwentyFive ==
  Shrinkage =>
    IF argMB
      THEN /\ \A x \in Movies : self.xBiases[x] = MovieShrunk(x, 25)
           /\ \A y \in Users : self.yBiases[y] = UserShrunk(y, 10)
      ELSE /\ \A x \in Users : self.xBiases[x] = UserShrunk(x, 10)
           /\ \A y \in Movies : self.yBiases[y] = MovieShrunk(y, 25)

\* A movie-based instance with a movie whose ratings deviate from the mean.
C7_Witness ==
  /\ Shrinkage /\ argMB
  /\ \E x \in Movies : self.xBiases[x] # 0 /\ self.xBiases[x] = MovieShrunk(x, 25)

\* C7 as stated: under either orientation x is regularized with 10 and y
\* with 25.
C7_PrimaryAxisUsesSmaller ==
  Shrinkage =>
    IF argMB
      THEN /\ \A x \in Movies : self.xBiases[x] = MovieShrunk(x, 10)
           /\ \A y \in Users : self.yBiases[y] = UserShrunk(y, 25)
      ELSE /\ \A x \in Users : self.xBiases[x] = UserShrunk(x, 10)
           /\ \A y \in Movies : self.yBiases[y] = MovieShrunk(y, 25)

\* --------------------------------------------------------- AlgoKNNBelkor
InitBelkor ==
  /\ ratings \in MatricesUpTo(2) /\ simFiles = NoFiles
  /\ NoInstance /\ NoGhost /\ NoSampling /\ NoTv

NextBelkor == Construct({"AlgoKNNBelkor"}) \/ Estimate

SpecBelkor == InitBelkor /\ [][NextBelkor]_vars

\* C6: AlgoKNNBelkor.estimate always leaves an estimate in [1, 5], never the
\* sentinel 0, for any learned biases and weights and any y0, also a y0
\* nobody rated.
C6_BelkorClamped ==
  pc = "ready" /\ cls = "AlgoKNNBelkor" /\ query # <<0, 0>> =>
    ~IsNaN(self.est) /\ self.est >= R(1) /\ self.est <= R(5)

\* Nobody rated y0: the sum over no rater divided by sqrt(0) is nan, and the
\* estimate is 5.
C6_Witness ==
  /\ pc = "ready" /\ cls = "AlgoKNNBelkor" /\ query # <<0, 0>>
  /\ self.yr[QueryY0] = <<>>
  /\ IsNaN(AlgoKNNBelkor_raw(self, query[1], query[2]))
  /\ self.est = R(5)

\* ----------------------------------------------------------- AlgoAnalogy
InitAnalogy ==
  /\ ratings \in Matrices /\ simFiles = NoFiles
  /\ NoInstance /\ NoGhost /\ NoSampling /\ NoTv

\* rating(x, y) read from the training matrix, for the orientation asked for.
Rating(x, y) == IF argMB THEN ratings[x][y] ELSE ratings[y][x]
Ys == IF argMB THEN Users ELSE Movies
\* The ys that xa, xb, xc and x0 all rated.
CommonYs(xa, xb, xc, x0) ==
  {y \in Ys : Rating(xa, y) > 0 /\ Rating(xb, y) > 0
              /\ Rating(xc, y) > 0 /\ Rating(x0, y) > 0}
\* The triple t records a solution, of nonzero weight.
UsableTriple(t, x0) ==
  /\ Cardinality({t[1][1], t[2][1], t[3][1]}) = 3
  /\ (t[1][2] = t[2][2] \/ t[1][2] = t[3][2])
  /\ \E y \in CommonYs(t[1][1], t[2][1], t[3][1], x0) :
       tvA(Rating(t[1][1], y), Rating(t[2][1], y), Rating(t[3][1], y),
           Rating(x0, y)) # 0

\* estimate(u0, m0) of AlgoAnalogy, for every outcome of the draws of its
\* passes.
EstimateAnalogy ==
  /\ pc = "ready" /\ cls = "AlgoAnalogy"
  /\ \E u0 \in Users, m0 \in Movies :
       LET x0 == getx0y0(self, u0, m0)[1]
           y0 == getx0y0(self, u0, m0)[2]
           draws == IF self.yr[y0] = <<>> THEN {<<>>}
                    ELSE [1..NTrials -> Triples(self, y0)]
       IN \E ts \in draws :
            /\ self' = AlgoAnalogy_estimate(self, u0, m0, ts)
            /\ query' = <<u0, m0>>
            /\ trial' = Len(ts)
            /\ sols' = RunTrials(self, x0, ts, 1, <<>>)
            /\ anyUsable' = \E i \in 1..Len(ts) : UsableTriple(ts[i], x0)
  /\ UNCHANGED <<envVars, instVars, ghostVars, tvVars>>

NextAnalogy == Construct({"AlgoAnalogy"}) \/ EstimateAnalogy

SpecAnalogy == InitAnalogy /\ [][NextAnalogy]_vars

\* C10: AlgoAnalogy.estimate returns the sentinel 0 exactly when no pass
\* records a solution of nonzero weight (yr[y0] empty, no triple pairwise
\* distinct and solvable with a common y, in particular fewer than three
\* raters of y0, or every weight zero); otherwise it returns an integer in
\* 1..5, whatever the draws.
C10_AnalogyZeroIffNoUsable ==
  pc = "ready" /\ cls = "AlgoAnalogy" /\ query # <<0, 0>> =>
    /\ self.est = 0 <=> ~anyUsable
    /\ self.est # 0 => \E r \in 1..5 : self.est = R(r)
    /\ Cardinality({x \in 1..self.lastXi : Rating(x, QueryY0) > 0}) < 3
         => self.est = 0
    /\ trial = 0 <=> self.yr[QueryY0] = <<>>

\* Solutions were recorded, every one of weight zero, and the estimate is 0.
C10_Witness ==
  /\ pc = "ready" /\ cls = "AlgoAnalogy" /\ query # <<0, 0>>
  /\ sols # <<>> /\ ~anyUsable /\ self.est = 0

====
